---- MODULE Spec2Model ----
(***************************************************************************)
(* Model of the Respect Game voting session of src/respect_commands.py:    *)
(* the RespectVote object, the button callbacks that drive it              *)
(* (VoteButton, LeaderCompleteButton, ContinueVoteView) and the points at  *)
(* which those coroutines suspend (await) and may interleave.              *)
(*                                                                         *)
(* Members are the integers 1..n; original_members is <<1, ..., n>>.       *)
(* A Python dict that is iterated (votes) is a sequence of                 *)
(* [member, count] entries in insertion order; a dict that is only looked  *)
(* up (voter_choices) is a function.  None is NoMember / NoMessage.        *)
(*                                                                         *)
(* Spec        the callbacks of one session, interleaved at their awaits   *)
(* SpecSession the RespectVote object under any sequence of method calls   *)
(* SpecFinal   show_final_results for sessions of up to MaxRanked members  *)
(* SpecStart   the /respectvote command, from a thread without a session   *)
(*                                                                         *)
(* The second part models the fractal-group cog of src/cogs/fractal: the   *)
(* registry kept by FractalCog (active_fractal_groups, member_groups,      *)
(* _active_commands, _lock), the FractalGroup objects and the handlers     *)
(* that change them (/fractalgroup and its modal, VoteButton, JoinButton,  *)
(* periodic_cleanup).  Users are 1..NumUsers, a thread id is the index of  *)
(* its FractalGroup in groups.                                             *)
(*                                                                         *)
(* SpecFractal the handlers of the cog, interleaved at their awaits        *)
(* SpecLevels  the votes of one registered group, level after level        *)
(*                                                                         *)
(* The third part models the sharing timer of src/timer_commands.py: the   *)
(* module-level dict active_timers, the TimerView objects and the          *)
(* coroutines that drive them (/timer, the name modal, start_timer, the    *)
(* update_timer task, the Pause/Resume and Reset buttons).  Channels are   *)
(* 1..MaxChannels, a TimerView is its index in timer_views.                *)
(*                                                                         *)
(* SpecTimer   the /timer commands of the channels and their countdowns    *)
(***************************************************************************)
EXTENDS Integers, Sequences, FiniteSets, Bags, TLC

\* ---------------------------------------------------------------- bounds
MaxMembers == 3
MaxTasks == 2
MaxClicks == 5
MaxCalls == 6
MaxRanked == 7
NumUsers == 4
MaxGroups == 2
MaxVotes == 4
MaxRegistryVotes == 1
MaxLevelMembers == 4
MaxChannels == 2
MaxTimers == 2
MaxSeconds == 2
MaxTimerClicks == 2

\* ------------------------------------------------------------- constants
NoMember == 0
NoMessage == 0
ThreadId == 1
Outsider == MaxMembers + 1

VARIABLES
    original_members,   \* RespectVote.original_members (list)
    members,            \* RespectVote.members: the current candidate pool (list)
    votes,              \* RespectVote.votes: insertion-ordered dict member -> count
    voter_choices,      \* RespectVote.voter_choices: dict voter -> candidate
    threshold,          \* RespectVote.threshold: total_members / 2, an exact fraction
    current_round,      \* RespectVote.current_round
    round_winners,      \* RespectVote.round_winners (list)
    leader,             \* RespectVote.leader (NoMember = None)
    message,            \* RespectVote.message: id of a message (NoMessage = None)
    status_message,     \* RespectVote.status_message is not None
    active_votes,       \* keys of the module-level dict active_votes
    views,              \* views[m]: the buttons shown on message m of the thread
    tasks,              \* bag of callbacks suspended at an await
    clicks,             \* number of button clicks so far
    last_call,          \* the RespectVote method call made by the last step
    round_results,      \* log of "Round r Complete! w wins" announcements
    final_results,      \* log of the rankings sent as FINAL RESULTS
    final_points,       \* log of the points lists sent with those rankings
    created,            \* number of RespectVote objects constructed so far
    final_branch_taken, \* complete_round has taken its "no more members" branch
    groups,             \* groups[id]: the FractalGroup created for thread id
    active_fractal_groups,  \* keys of FractalCog.active_fractal_groups
    member_groups,      \* FractalCog.member_groups: dict user -> thread id
    active_commands,    \* FractalCog._active_commands (set of users)
    lock,               \* FractalCog._lock is held
    active_timers,      \* timer_commands.active_timers: dict channel -> view
    timer_views         \* timer_views[v]: the v-th TimerView constructed

vars == <<original_members, members, votes, voter_choices, threshold,
          current_round, round_winners, leader, message, status_message,
          active_votes, views, tasks, clicks, last_call, round_results,
          final_results, final_points, created, final_branch_taken,
          groups, active_fractal_groups, member_groups, active_commands,
          lock, active_timers, timer_views>>

\* the state of the fractal-group cog
fractal == <<groups, active_fractal_groups, member_groups, active_commands,
             lock>>

\* the state of the sharing timers
timer == <<active_timers, timer_views>>

\* the state of the Respect Game session, except the variables that the
\* coroutines of both parts use (tasks, clicks, last_call)
respect == <<original_members, members, votes, voter_choices, threshold,
             current_round, round_winners, leader, message, status_message,
             active_votes, views, round_results, final_results, final_points,
             created, final_branch_taken>>

\* FractalCog.__init__: no group, nobody tracked, no command running.
NoGroups ==
    /\ groups = <<>>
    /\ active_fractal_groups = {}
    /\ member_groups = <<>>
    /\ active_commands = {}
    /\ lock = FALSE

\* timer_commands is imported: active_timers = {}, no TimerView exists.
NoTimers ==
    /\ active_timers = <<>>
    /\ timer_views = <<>>

session == <<original_members, members, votes, voter_choices, threshold,
             current_round, round_winners, leader>>

\* --------------------------------------------------------------- helpers
Range(s) == {s[i] : i \in 1..Len(s)}

\* list.remove(x): drops the first occurrence of x
ListRemove(s, x) ==
    LET i == CHOOSE k \in 1..Len(s) : s[k] = x /\ \A j \in 1..(k - 1) : s[j] # x
    IN  SubSeq(s, 1, i - 1) \o SubSeq(s, i + 1, Len(s))

DictKeys(d) == {d[i].member : i \in 1..Len(d)}

DictGet(d, k) == d[CHOOSE i \in 1..Len(d) : d[i].member = k].count

DictAdd(d, k, delta) ==
    [i \in 1..Len(d) |->
        IF d[i].member = k THEN [d[i] EXCEPT !.count = @ + delta] ELSE d[i]]

\* {member: 0 for member in members}
ZeroVotes(ms) == [i \in 1..Len(ms) |-> [member |-> ms[i], count |-> 0]]

\* total_members / 2 (Python true division), kept exact
HalfOf(n) == [num |-> n, den |-> 2]

\* Variant: a count has to exceed the threshold.
MeetsThresholdStrict(count, th) == count * th.den > th.num

\* votes >= self.threshold
MeetsThreshold(count, th) == count * th.den >= th.num

\* -------------------------------------------------- RespectVote methods
check_threshold_reached(vs, th) ==
    IF \E i \in 1..Len(vs) : MeetsThreshold(vs[i].count, th)
    THEN vs[CHOOSE i \in 1..Len(vs) :
                /\ MeetsThreshold(vs[i].count, th)
                /\ \A j \in 1..(i - 1) : ~MeetsThreshold(vs[j].count, th)].member
    ELSE NoMember

\* Variant: a round is complete only once every original member has voted.
is_round_complete_all_voted(vc, om, vs, th) ==
    Cardinality(DOMAIN vc) >= Len(om)

is_round_complete(vc, om, vs, th) ==
    \/ Cardinality(DOMAIN vc) >= Len(om)
    \/ check_threshold_reached(vs, th) # NoMember

\* max(self.votes.items(), key=lambda x: x[1])[0]: the first maximal entry
get_round_winner(vs, th) ==
    LET tw == check_threshold_reached(vs, th) IN
    IF tw # NoMember THEN tw
    ELSE IF Len(vs) > 0
         THEN vs[CHOOSE i \in 1..Len(vs) :
                    /\ \A j \in 1..Len(vs) : vs[j].count <= vs[i].count
                    /\ \A j \in 1..(i - 1) : vs[j].count < vs[i].count].member
         ELSE NoMember

\* Variant: the previous vote of the voter is not taken back.
record_vote_no_decrement(voter, candidate, om, ms, vs, vc) ==
    IF voter \in Range(om) /\ candidate \in Range(ms)
    THEN [ok |-> TRUE,
          votes |-> DictAdd(vs, candidate, 1),
          voter_choices |-> [v \in (DOMAIN vc) \cup {voter} |->
                                IF v = voter THEN candidate ELSE vc[v]]]
    ELSE [ok |-> FALSE, votes |-> vs, voter_choices |-> vc]

\* Variant: a voter who votes again keeps the first recorded choice.
record_vote_keeps_choice(voter, candidate, om, ms, vs, vc) ==
    IF voter \in Range(om) /\ candidate \in Range(ms)
    THEN LET vs1 == IF voter \in DOMAIN vc /\ vc[voter] \in DictKeys(vs)
                    THEN DictAdd(vs, vc[voter], -1)
                    ELSE vs
         IN  [ok |-> TRUE,
              votes |-> DictAdd(vs1, candidate, 1),
              voter_choices |-> [v \in (DOMAIN vc) \cup {voter} |->
                                    IF v \in DOMAIN vc THEN vc[v] ELSE candidate]]
    ELSE [ok |-> FALSE, votes |-> vs, voter_choices |-> vc]

\* Variant: the candidate is looked up in the original members, not in the pool.
record_vote_any_candidate(voter, candidate, om, ms, vs, vc) ==
    IF voter \in Range(om) /\ candidate \in Range(om)
    THEN LET vs1 == IF voter \in DOMAIN vc /\ vc[voter] \in DictKeys(vs)
                    THEN DictAdd(vs, vc[voter], -1)
                    ELSE vs
         IN  [ok |-> TRUE,
              votes |-> DictAdd(vs1, candidate, 1),
              voter_choices |-> [v \in (DOMAIN vc) \cup {voter} |->
                                    IF v = voter THEN candidate ELSE vc[v]]]
    ELSE [ok |-> FALSE, votes |-> vs, voter_choices |-> vc]

record_vote(voter, candidate, om, ms, vs, vc) ==
    IF voter \in Range(om) /\ candidate \in Range(ms)
    THEN LET vs1 == IF voter \in DOMAIN vc /\ vc[voter] \in DictKeys(vs)
                    THEN DictAdd(vs, vc[voter], -1)
                    ELSE vs
         IN  [ok |-> TRUE,
              votes |-> DictAdd(vs1, candidate, 1),
              voter_choices |-> [v \in (DOMAIN vc) \cup {voter} |->
                                    IF v = voter THEN candidate ELSE vc[v]]]
    ELSE [ok |-> FALSE, votes |-> vs, voter_choices |-> vc]

\* Variant: the threshold of a new round is half of the remaining pool.
start_new_round_pool_threshold(om, ms, vs, vc, th, rnd, rw) ==
    LET winner == get_round_winner(vs, th)
        rw1 == IF winner # NoMember THEN Append(rw, winner) ELSE rw
        ms1 == IF winner # NoMember /\ winner \in Range(ms)
               THEN ListRemove(ms, winner) ELSE ms
    IN  IF Len(ms1) < 2
        THEN [winner |-> winner, members |-> ms1, round_winners |-> rw1,
              votes |-> vs, voter_choices |-> vc, threshold |-> th,
              current_round |-> rnd]
        ELSE [winner |-> winner, members |-> ms1, round_winners |-> rw1,
              votes |-> ZeroVotes(ms1), voter_choices |-> <<>>,
              threshold |-> HalfOf(Len(ms1)), current_round |-> rnd + 1]

\* Variant: a new round keeps the choices recorded in the previous one.
start_new_round_keeps_choices(om, ms, vs, vc, th, rnd, rw) ==
    LET winner == get_round_winner(vs, th)
        rw1 == IF winner # NoMember THEN Append(rw, winner) ELSE rw
        ms1 == IF winner # NoMember /\ winner \in Range(ms)
               THEN ListRemove(ms, winner) ELSE ms
    IN  IF Len(ms1) < 2
        THEN [winner |-> winner, members |-> ms1, round_winners |-> rw1,
              votes |-> vs, voter_choices |-> vc, threshold |-> th,
              current_round |-> rnd]
        ELSE [winner |-> winner, members |-> ms1, round_winners |-> rw1,
              votes |-> ZeroVotes(ms1), voter_choices |-> vc,
              threshold |-> HalfOf(Len(om)), current_round |-> rnd + 1]

start_new_round(om, ms, vs, vc, th, rnd, rw) ==
    LET winner == get_round_winner(vs, th)
        rw1 == IF winner # NoMember THEN Append(rw, winner) ELSE rw
        ms1 == IF winner # NoMember /\ winner \in Range(ms)
               THEN ListRemove(ms, winner) ELSE ms
    IN  IF Len(ms1) < 2
        THEN [winner |-> winner, members |-> ms1, round_winners |-> rw1,
              votes |-> vs, voter_choices |-> vc, threshold |-> th,
              current_round |-> rnd]
        ELSE [winner |-> winner, members |-> ms1, round_winners |-> rw1,
              votes |-> ZeroVotes(ms1), voter_choices |-> <<>>,
              threshold |-> HalfOf(Len(om)), current_round |-> rnd + 1]

\* ------------------------------------------------------------ bookkeeping
NoCall == [op |-> "none", voter |-> NoMember, candidate |-> NoMember,
           previous |-> NoMember, ok |-> FALSE, winner |-> NoMember,
           reply |-> "none"]

\* self.voter_choices.get(voter)
PreviousChoice(vc, voter) == IF voter \in DOMAIN vc THEN vc[voter] ELSE NoMember

RecordVoteCalled(voter, candidate, r) ==
    [op |-> "record_vote", voter |-> voter, candidate |-> candidate,
     previous |-> PreviousChoice(voter_choices, voter), ok |-> r.ok,
     winner |-> NoMember, reply |-> "none"]

NoView == [kind |-> "none", cands |-> <<>>]

Task(pc, winner, msg, cands) ==
    [pc |-> pc, winner |-> winner, msg |-> msg, cands |-> cands]

Spawn(t) == tasks (+) SetToBag({t})

Move(t, u) == (tasks (-) SetToBag({t})) (+) SetToBag({u})

Finish(t) == tasks (-) SetToBag({t})

Users == Range(original_members) \cup {Outsider}

VoteViews == {m \in 1..Len(views) : views[m].kind = "vote"}

ContinueViews == {m \in 1..Len(views) : views[m].kind = "continue"}

LiveCandidates == UNION {Range(views[m].cands) : m \in VoteViews}

CanClick == clicks < MaxClicks /\ BagCardinality(tasks) < MaxTasks

\* ------------------------------------------------------------------ Init
\* The state after /respectvote has created the session, sent the voting
\* message with its RespectVoteView and the first status message.
Created(n, ld) ==
    /\ original_members = [i \in 1..n |-> i]
    /\ leader = ld
    /\ members = original_members
    /\ votes = ZeroVotes(original_members)
    /\ voter_choices = <<>>
    /\ threshold = HalfOf(Len(original_members))
    /\ current_round = 1
    /\ round_winners = <<>>
    /\ message = 1
    /\ status_message = TRUE
    /\ active_votes = {ThreadId}
    /\ views = <<[kind |-> "vote", cands |-> original_members]>>
    /\ tasks = EmptyBag
    /\ clicks = 0
    /\ last_call = NoCall
    /\ round_results = <<>>
    /\ final_results = <<>>
    /\ final_points = <<>>
    /\ created = 1
    /\ final_branch_taken = FALSE
    /\ NoGroups
    /\ NoTimers

Init == \E n \in 2..MaxMembers, ld \in {NoMember, 1} : Created(n, ld)

\* --------------------------------------------------- VoteButton.callback
\* The acknowledgement sent to the voter: "You changed your vote from ..."
\* if changing_vote and previous_vote != candidate, else "You voted for ...".
VoteReply(vc, u, c) ==
    IF u \in DOMAIN vc /\ PreviousChoice(vc, u) # c
    THEN "vote_changed" ELSE "voted"

\* Click on the button of candidate c by user u.  Runs up to the first
\* await: the membership check, then RespectVote.record_vote.
VoteClick(u, c) ==
    /\ CanClick
    /\ c \in LiveCandidates
    /\ clicks' = clicks + 1
    /\ IF u \notin Range(original_members)
       THEN /\ last_call' = [NoCall EXCEPT !.voter = u, !.candidate = c,
                                           !.reply = "not_part_of_game"]
            /\ UNCHANGED <<votes, voter_choices, tasks>>
       ELSE LET r == record_vote(u, c, original_members, members, votes,
                                 voter_choices)
            IN  /\ votes' = r.votes
                /\ voter_choices' = r.voter_choices
                /\ last_call' = [RecordVoteCalled(u, c, r) EXCEPT
                                    !.reply = VoteReply(voter_choices, u, c)]
                /\ tasks' = Spawn(Task("v_ack", NoMember, NoMessage, <<>>))
    /\ UNCHANGED <<original_members, members, threshold, current_round,
                   round_winners, leader, message, status_message,
                   active_votes, views, round_results, final_results,
                   final_points, created, final_branch_taken,
                   fractal, timer>>

\* RespectVoteView.complete_round up to its first await: the winner is read,
\* then the old status message is deleted (an await) if there is one;
\* otherwise the results are announced at once.
CompleteRoundStart(t, has_status) ==
    LET w == get_round_winner(votes, threshold) IN
    /\ last_call' = [NoCall EXCEPT !.op = "get_round_winner", !.winner = w]
    /\ IF has_status
       THEN /\ tasks' = Move(t, Task("cr_del", w, NoMessage, <<>>))
            /\ UNCHANGED round_results
       ELSE /\ tasks' = Move(t, Task("cr_sent", w, NoMessage, <<>>))
            /\ round_results' = Append(round_results,
                                  [round |-> current_round, winner |-> w])

\* The callback resumes after its replies: the new status message is stored,
\* then is_round_complete() decides whether complete_round runs.
VoteResume(t) ==
    /\ t.pc = "v_ack"
    /\ status_message' = TRUE
    /\ IF is_round_complete(voter_choices, original_members, votes, threshold)
       THEN CompleteRoundStart(t, TRUE)
       ELSE /\ tasks' = Finish(t)
            /\ last_call' = NoCall
            /\ UNCHANGED round_results
    /\ UNCHANGED <<session, message, active_votes, views, clicks,
                   final_results, final_points, created, final_branch_taken,
                   fractal, timer>>

\* ------------------------------------------ LeaderCompleteButton.callback
\* The reply of the callback: the two early returns, else the acknowledgement.
LeaderReply(u) ==
    IF u # leader THEN "only_leader"
    ELSE IF DOMAIN voter_choices = {} THEN "no_votes_cast"
    ELSE "completing"

\* Click on "Leader: Complete Round" by user u, up to the first await.
LeaderClick(u) ==
    /\ CanClick
    /\ leader # NoMember
    /\ VoteViews # {}
    /\ clicks' = clicks + 1
    /\ last_call' = [NoCall EXCEPT !.op = "leader_complete", !.voter = u,
                                   !.reply = LeaderReply(u)]
    /\ IF LeaderReply(u) # "completing"
       THEN UNCHANGED tasks
       ELSE tasks' = Spawn(Task("l_ack", NoMember, NoMessage, <<>>))
    /\ UNCHANGED <<session, message, status_message, active_votes, views,
                   round_results, final_results, final_points, created,
                   final_branch_taken, fractal, timer>>

LeaderResume(t) ==
    /\ t.pc = "l_ack"
    /\ CompleteRoundStart(t, status_message)
    /\ UNCHANGED <<session, message, status_message, active_votes, views,
                   clicks, final_results, final_points, created,
                   final_branch_taken, fractal, timer>>

\* ------------------------------------------ RespectVoteView.complete_round
\* After the status message was deleted: the round result is announced.
CompleteRoundAnnounce(t) ==
    /\ t.pc = "cr_del"
    /\ round_results' = Append(round_results,
                               [round |-> current_round, winner |-> t.winner])
    /\ tasks' = Move(t, [t EXCEPT !.pc = "cr_sent"])
    /\ last_call' = NoCall
    /\ UNCHANGED <<session, message, status_message, active_votes, views,
                   clicks, final_results, final_points, created,
                   final_branch_taken, fractal, timer>>

\* After the announcement: either a Continue message is sent, or the last
\* member is appended and self.show_final_results() is looked up on the
\* RespectVoteView, which has no such method (AttributeError ends the call).
CompleteRoundBranch(t) ==
    /\ t.pc = "cr_sent"
    /\ LET remaining_members == Len(members) - 1 IN
       IF remaining_members >= 2
       THEN /\ views' = Append(views, [kind |-> "continue", cands |-> <<>>])
            /\ tasks' = Move(t, [t EXCEPT !.pc = "cr_cont",
                                          !.msg = Len(views) + 1])
            /\ UNCHANGED <<round_winners, final_branch_taken>>
       ELSE /\ round_winners' =
                 IF remaining_members = 1
                 THEN Append(round_winners,
                             Head(SelectSeq(members, LAMBDA m : m # t.winner)))
                 ELSE round_winners
            /\ final_branch_taken' = TRUE
            /\ tasks' = Finish(t)
            /\ UNCHANGED views
    /\ last_call' = NoCall
    /\ UNCHANGED <<original_members, members, votes, voter_choices, threshold,
                   current_round, leader, message, status_message,
                   active_votes, clicks, round_results, final_results,
                   final_points, created, fractal, timer>>

CompleteRoundContinue(t) ==
    /\ t.pc = "cr_cont"
    /\ message' = t.msg
    /\ status_message' = FALSE
    /\ tasks' = Finish(t)
    /\ last_call' = NoCall
    /\ UNCHANGED <<session, active_votes, views, clicks, round_results,
                   final_results, final_points, created, final_branch_taken,
                   fractal, timer>>

\* ---------------------------------------- ContinueVoteView.continue_button
ContinueClick(m) ==
    /\ CanClick
    /\ m \in ContinueViews
    /\ clicks' = clicks + 1
    /\ LET r == start_new_round(original_members, members, votes,
                                voter_choices, threshold, current_round,
                                round_winners)
       IN  /\ members' = r.members
           /\ round_winners' = r.round_winners
           /\ votes' = r.votes
           /\ voter_choices' = r.voter_choices
           /\ threshold' = r.threshold
           /\ current_round' = r.current_round
           /\ last_call' = [NoCall EXCEPT !.op = "start_new_round",
                                          !.winner = r.winner]
           /\ tasks' = Spawn(Task("c_edit", NoMember, m, r.members))
    /\ UNCHANGED <<original_members, leader, message, status_message,
                   active_votes, views, round_results, final_results,
                   final_points, created, final_branch_taken,
                   fractal, timer>>

\* interaction.response.edit_message: the message now shows the new
\* RespectVoteView built from the members at the time of the click.
ContinueEdit(t) ==
    /\ t.pc = "c_edit"
    /\ views' = [views EXCEPT ![t.msg] = [kind |-> "vote", cands |-> t.cands]]
    /\ tasks' = Move(t, [t EXCEPT !.pc = "c_msg"])
    /\ last_call' = NoCall
    /\ UNCHANGED <<session, message, status_message, active_votes, clicks,
                   round_results, final_results, final_points, created,
                   final_branch_taken, fractal, timer>>

ContinueStore(t) ==
    /\ t.pc = "c_msg"
    /\ message' = t.msg
    /\ status_message' = FALSE
    /\ tasks' = Move(t, [t EXCEPT !.pc = "c_status"])
    /\ last_call' = NoCall
    /\ UNCHANGED <<session, active_votes, views, clicks, round_results,
                   final_results, final_points, created, final_branch_taken,
                   fractal, timer>>

ContinueStatus(t) ==
    /\ t.pc = "c_status"
    /\ status_message' = TRUE
    /\ tasks' = Finish(t)
    /\ last_call' = NoCall
    /\ UNCHANGED <<session, message, active_votes, views, clicks,
                   round_results, final_results, final_points, created,
                   final_branch_taken, fractal, timer>>

\* ----------------- ContinueVoteView.end_button and show_final_results
EndClick(m) ==
    /\ CanClick
    /\ m \in ContinueViews
    /\ clicks' = clicks + 1
    /\ tasks' = Spawn(Task("e_defer", NoMember, NoMessage, <<>>))
    /\ last_call' = NoCall
    /\ UNCHANGED <<session, message, status_message, active_votes, views,
                   round_results, final_results, final_points, created,
                   final_branch_taken, fractal, timer>>

\* winners = round_winners; winners.extend(members not yet ranked)
FinalRanking(om, rw) == rw \o SelectSeq(om, LAMBDA m : m \notin Range(rw))

fibonacci_points == <<110, 68, 42, 26, 16, 10>>

\* Variant: a position beyond the table is given the last value of the table.
PointsAtClamped(i) ==
    IF i < Len(fibonacci_points) THEN fibonacci_points[i + 1]
    ELSE fibonacci_points[Len(fibonacci_points)]

\* points = fibonacci_points[i] if i < len(fibonacci_points) else 0, for the
\* 0-based index i of enumerate(winners)
PointsAt(i) == IF i < Len(fibonacci_points) THEN fibonacci_points[i + 1] ELSE 0

\* the points written to points_text, in ranking order
AwardedPoints(winners) == [k \in 1..Len(winners) |-> PointsAt(k - 1)]

\* show_final_results from the ranking to the await of thread.send
ShowFinalCompute(t) ==
    /\ round_winners' = FinalRanking(original_members, round_winners)
    /\ final_results' = Append(final_results,
                               FinalRanking(original_members, round_winners))
    /\ final_points' =
          Append(final_points,
                 AwardedPoints(FinalRanking(original_members, round_winners)))
    /\ tasks' = Move(t, [t EXCEPT !.pc = "sfr_sent"])

\* After interaction.response.defer(): show_final_results starts; it awaits
\* the deletion of the status message first if there is one.
EndResume(t) ==
    /\ t.pc = "e_defer"
    /\ IF status_message
       THEN /\ tasks' = Move(t, [t EXCEPT !.pc = "sfr_del"])
            /\ UNCHANGED <<round_winners, final_results, final_points>>
       ELSE ShowFinalCompute(t)
    /\ last_call' = NoCall
    /\ UNCHANGED <<original_members, members, votes, voter_choices, threshold,
                   current_round, leader, message, status_message,
                   active_votes, views, clicks, round_results, created,
                   final_branch_taken, fractal, timer>>

ShowFinalRank(t) ==
    /\ t.pc = "sfr_del"
    /\ ShowFinalCompute(t)
    /\ last_call' = NoCall
    /\ UNCHANGED <<original_members, members, votes, voter_choices, threshold,
                   current_round, leader, message, status_message,
                   active_votes, views, clicks, round_results, created,
                   final_branch_taken, fractal, timer>>

\* message.edit(embed=final_embed, view=None) on the stored message
ShowFinalEdit(t) ==
    /\ t.pc = "sfr_sent"
    /\ views' = IF message # NoMessage
                THEN [views EXCEPT ![message] = NoView]
                ELSE views
    /\ tasks' = Move(t, [t EXCEPT !.pc = "sfr_edit"])
    /\ last_call' = NoCall
    /\ UNCHANGED <<session, message, status_message, active_votes, clicks,
                   round_results, final_results, final_points, created,
                   final_branch_taken, fractal, timer>>

\* if thread.id in active_votes: del active_votes[thread.id]
ShowFinalCleanup(t) ==
    /\ t.pc = "sfr_edit"
    /\ active_votes' = active_votes \ {ThreadId}
    /\ tasks' = Finish(t)
    /\ last_call' = NoCall
    /\ UNCHANGED <<session, message, status_message, views, clicks,
                   round_results, final_results, final_points, created,
                   final_branch_taken, fractal, timer>>

\* ------------------------------------------------------------------ Next
Next ==
    \/ \E u \in Users, c \in 1..MaxMembers : VoteClick(u, c)
    \/ \E u \in Users : LeaderClick(u)
    \/ \E m \in 1..Len(views) : ContinueClick(m)
    \/ \E m \in 1..Len(views) : EndClick(m)
    \/ \E t \in BagToSet(tasks) : VoteResume(t)
    \/ \E t \in BagToSet(tasks) : LeaderResume(t)
    \/ \E t \in BagToSet(tasks) : CompleteRoundAnnounce(t)
    \/ \E t \in BagToSet(tasks) : CompleteRoundBranch(t)
    \/ \E t \in BagToSet(tasks) : CompleteRoundContinue(t)
    \/ \E t \in BagToSet(tasks) : ContinueEdit(t)
    \/ \E t \in BagToSet(tasks) : ContinueStore(t)
    \/ \E t \in BagToSet(tasks) : ContinueStatus(t)
    \/ \E t \in BagToSet(tasks) : EndResume(t)
    \/ \E t \in BagToSet(tasks) : ShowFinalRank(t)
    \/ \E t \in BagToSet(tasks) : ShowFinalEdit(t)
    \/ \E t \in BagToSet(tasks) : ShowFinalCleanup(t)

Spec == Init /\ [][Next]_vars

\* The RespectVote object on its own, under any sequence of calls of its two
\* mutating methods by any caller; clicks counts the calls.
RecordVoteCall(voter, candidate) ==
    /\ clicks < MaxCalls
    /\ clicks' = clicks + 1
    /\ LET r == record_vote(voter, candidate, original_members, members, votes,
                             voter_choices)
       IN  /\ votes' = r.votes
           /\ voter_choices' = r.voter_choices
           /\ last_call' = RecordVoteCalled(voter, candidate, r)
    /\ UNCHANGED <<original_members, members, threshold, current_round,
                   round_winners, leader, message, status_message,
                   active_votes, views, tasks, round_results, final_results,
                   final_points, created, final_branch_taken,
                   fractal, timer>>

StartNewRoundCall ==
    /\ clicks < MaxCalls
    /\ clicks' = clicks + 1
    /\ LET r == start_new_round(original_members, members, votes,
                                voter_choices, threshold, current_round,
                                round_winners)
       IN  /\ members' = r.members
           /\ round_winners' = r.round_winners
           /\ votes' = r.votes
           /\ voter_choices' = r.voter_choices
           /\ threshold' = r.threshold
           /\ current_round' = r.current_round
           /\ last_call' = [NoCall EXCEPT !.op = "start_new_round",
                                          !.winner = r.winner]
    /\ UNCHANGED <<original_members, leader, message, status_message,
                   active_votes, views, tasks, round_results, final_results,
                   final_points, created, final_branch_taken,
                   fractal, timer>>

InitSession == \E n \in 2..MaxMembers : Created(n, NoMember)

NextSession ==
    \/ \E voter \in 1..Outsider, candidate \in 1..Outsider :
          RecordVoteCall(voter, candidate)
    \/ StartNewRoundCall

SpecSession == InitSession /\ [][NextSession]_vars

\* show_final_results on its own, for sessions of up to MaxRanked members.
\* Winners(n, s, k): the k winners s, s+1, ... (cyclically) of the first k
\* rounds of a session of n.
Winners(n, s, k) == [i \in 1..k |-> ((s + i - 2) % n) + 1]

\* A session of n whose rounds so far were won by rw, when its next round
\* has been completed by the votes of all members for the first candidate
\* and the Continue / End Voting message is displayed.
RoundsWon(n, rw) ==
    /\ original_members = [i \in 1..n |-> i]
    /\ leader = NoMember
    /\ members = SelectSeq(original_members, LAMBDA m : m \notin Range(rw))
    /\ votes = [i \in 1..Len(members) |->
                  [member |-> members[i], count |-> IF i = 1 THEN n ELSE 0]]
    /\ voter_choices = [v \in 1..n |-> members[1]]
    /\ threshold = HalfOf(n)
    /\ current_round = Len(rw) + 1
    /\ round_winners = rw
    /\ message = 1
    /\ status_message = FALSE
    /\ active_votes = {ThreadId}
    /\ views = <<[kind |-> "continue", cands |-> <<>>]>>
    /\ tasks = EmptyBag
    /\ clicks = 0
    /\ last_call = NoCall
    /\ round_results = <<>>
    /\ final_results = <<>>
    /\ final_points = <<>>
    /\ created = 1
    /\ final_branch_taken = FALSE
    /\ NoGroups
    /\ NoTimers

InitFinal ==
    \E n \in 3..MaxRanked, s \in 1..MaxRanked, k \in 0..MaxRanked :
        s <= n /\ k <= n - 3 /\ RoundsWon(n, Winners(n, s, k))

\* End Voting run to its end without interruption: end_button and the whole
\* of show_final_results.
ShowFinalResultsCall ==
    /\ clicks < MaxCalls
    /\ clicks' = clicks + 1
    /\ round_winners' = FinalRanking(original_members, round_winners)
    /\ final_results' = Append(final_results,
                               FinalRanking(original_members, round_winners))
    /\ final_points' =
          Append(final_points,
                 AwardedPoints(FinalRanking(original_members, round_winners)))
    /\ views' = IF message # NoMessage
                THEN [views EXCEPT ![message] = NoView]
                ELSE views
    /\ active_votes' = active_votes \ {ThreadId}
    /\ last_call' = NoCall
    /\ UNCHANGED <<original_members, members, votes, voter_choices, threshold,
                   current_round, leader, message, status_message, tasks,
                   round_results, created, final_branch_taken,
                   fractal, timer>>

NextFinal == ShowFinalResultsCall

SpecFinal == InitFinal /\ [][NextFinal]_vars

\* ------------------------------------------- RespectCog.respect_vote
\* The /respectvote command in the thread, from before any session exists.
\* A suspended command is a task that holds its local variables: the leader
\* argument, the RespectVote object it constructed (vote, numbered in order
\* of construction; 0 before), its candidates and the message it sent.
StartTask(pc, ld, vote, cands, msg) ==
    [pc |-> pc, leader |-> ld, vote |-> vote, cands |-> cands, msg |-> msg]

\* No RespectVote object exists and active_votes is empty.
NoRespectVote ==
    /\ original_members = <<>>
    /\ leader = NoMember
    /\ members = <<>>
    /\ votes = <<>>
    /\ voter_choices = <<>>
    /\ threshold = HalfOf(0)
    /\ current_round = 0
    /\ round_winners = <<>>
    /\ message = NoMessage
    /\ status_message = FALSE
    /\ active_votes = {}
    /\ views = <<>>
    /\ tasks = EmptyBag
    /\ clicks = 0
    /\ last_call = NoCall
    /\ round_results = <<>>
    /\ final_results = <<>>
    /\ final_points = <<>>
    /\ created = 0
    /\ final_branch_taken = FALSE

\* the bot after start-up: no session, no fractal group
NoSession == NoRespectVote /\ NoGroups /\ NoTimers

\* The command up to its first await: the check of active_votes, then
\* thread.fetch_members() suspends it.
RespectVoteCommand(ld) ==
    /\ clicks < MaxCalls
    /\ BagCardinality(tasks) < MaxTasks
    /\ clicks' = clicks + 1
    /\ IF ThreadId \in active_votes
       THEN /\ last_call' = [NoCall EXCEPT !.op = "respectvote",
                                           !.reply = "already_active"]
            /\ UNCHANGED tasks
       ELSE /\ last_call' = [NoCall EXCEPT !.op = "respectvote"]
            /\ tasks' = Spawn(StartTask("rv_fetch", ld, 0, <<>>, NoMessage))
    /\ UNCHANGED <<session, message, status_message, active_votes, views,
                   round_results, final_results, final_points, created,
                   final_branch_taken, fractal, timer>>

\* The n members of the thread have been fetched: the two checks, then
\* vote = RespectVote(thread, members, leader) and
\* active_votes[thread.id] = vote, up to the await of the first reply.
RespectVoteCreate(t, n) ==
    /\ t.pc = "rv_fetch"
    /\ IF n < 2 \/ (t.leader # NoMember /\ t.leader \notin 1..n)
       THEN /\ tasks' = Finish(t)
            /\ last_call' =
                  [NoCall EXCEPT !.reply = IF n < 2 THEN "need_two_members"
                                           ELSE "leader_not_in_thread"]
            /\ UNCHANGED <<session, message, status_message, active_votes,
                           created>>
       ELSE /\ original_members' = [i \in 1..n |-> i]
            /\ leader' = t.leader
            /\ members' = original_members'
            /\ votes' = ZeroVotes(original_members')
            /\ voter_choices' = <<>>
            /\ threshold' = HalfOf(n)
            /\ current_round' = 1
            /\ round_winners' = <<>>
            /\ message' = NoMessage
            /\ status_message' = FALSE
            /\ active_votes' = active_votes \cup {ThreadId}
            /\ created' = created + 1
            /\ last_call' = [NoCall EXCEPT !.op = "RespectVote"]
            /\ tasks' = Move(t, StartTask("rv_reply", t.leader, created + 1,
                                          original_members', NoMessage))
    /\ UNCHANGED <<views, clicks, round_results, final_results, final_points,
                   final_branch_taken, fractal, timer>>

\* After "Starting Respect Game vote...": the voting message is sent with
\* its RespectVoteView.
RespectVotePost(t) ==
    /\ t.pc = "rv_reply"
    /\ views' = Append(views, [kind |-> "vote", cands |-> t.cands])
    /\ tasks' = Move(t, [t EXCEPT !.pc = "rv_posted", !.msg = Len(views) + 1])
    /\ last_call' = NoCall
    /\ UNCHANGED <<session, message, status_message, active_votes, clicks,
                   round_results, final_results, final_points, created,
                   final_branch_taken, fractal, timer>>

\* vote.message = the message sent; then the status message is sent.  The
\* attribute written is that of the command's own object, which is the one
\* in active_votes only if no later command has replaced it.
RespectVoteStore(t) ==
    /\ t.pc = "rv_posted"
    /\ message' = IF t.vote = created THEN t.msg ELSE message
    /\ tasks' = Move(t, [t EXCEPT !.pc = "rv_status"])
    /\ last_call' = NoCall
    /\ UNCHANGED <<session, status_message, active_votes, views, clicks,
                   round_results, final_results, final_points, created,
                   final_branch_taken, fractal, timer>>

\* vote.status_message = the status message sent
RespectVoteStatus(t) ==
    /\ t.pc = "rv_status"
    /\ status_message' = IF t.vote = created THEN TRUE ELSE status_message
    /\ tasks' = Finish(t)
    /\ last_call' = NoCall
    /\ UNCHANGED <<session, message, active_votes, views, clicks,
                   round_results, final_results, final_points, created,
                   final_branch_taken, fractal, timer>>

InitStart == NoSession

NextStart ==
    \/ \E ld \in {NoMember, 1, Outsider} : RespectVoteCommand(ld)
    \/ \E t \in BagToSet(tasks), n \in 1..MaxMembers : RespectVoteCreate(t, n)
    \/ \E t \in BagToSet(tasks) : RespectVotePost(t)
    \/ \E t \in BagToSet(tasks) : RespectVoteStore(t)
    \/ \E t \in BagToSet(tasks) : RespectVoteStatus(t)
    \/ \E voter \in 1..Outsider, candidate \in 1..MaxMembers :
          ThreadId \in active_votes /\ RecordVoteCall(voter, candidate)
    \/ ThreadId \in active_votes /\ ShowFinalResultsCall

SpecStart == InitStart /\ [][NextStart]_vars

\* ============================================================ cogs/fractal
\* config.py
MAX_GROUP_SIZE == 6

MIN_GROUP_SIZE == 2

DEFAULT_LEVEL == 6

FUsers == 1..NumUsers

\* the users who issue /fractalgroup
Facilitators == {1, 3}

\* the users who click a Join button
Joiners == {1}

\* The member lists that a voice channel can hold when a modal is submitted
\* (bots already filtered out).
\* A voice channel with one member more than MAX_GROUP_SIZE; the members
\* above NumUsers sit in the channel and click nothing.
Crowd == [i \in 1..(MAX_GROUP_SIZE + 1) |-> i]

VoiceChannels == {<<1, 2>>, <<3, 4>>, <<1, 2, 3>>, Crowd}

\* What on_submit can read from interaction.user.voice: <<>> when the user is
\* in no voice channel, else the members of the user's channel.
VoiceOf(u, channels) ==
    {<<>>, <<u>>} \cup {c \in channels : u \in Range(c)}

\* ------------------------------------------------------------ FractalGroup
\* FractalGroup.__init__; buttons is the set of candidates that have a
\* VoteButton on some VotingView message of the thread, archived tells that
\* the thread has been archived and locked (or no longer exists).
NewGroup(facilitator) ==
    [members |-> <<facilitator>>, votes |-> <<>>, vote_counts |-> <<>>,
     current_level |-> DEFAULT_LEVEL, winners |-> <<>>, buttons |-> {},
     archived |-> FALSE]

add_member(g, member) ==
    IF member \in Range(g.members) THEN g
    ELSE [g EXCEPT !.members = Append(@, member)]

\* Variant: the import of MAX_GROUP_SIZE inside is_full resolves.
is_full_importable(g) ==
    [raised |-> FALSE, value |-> Len(g.members) >= MAX_GROUP_SIZE]

\* is_full executes "from ...config.config import MAX_GROUP_SIZE" inside the
\* module cogs.fractal.group (main.py loads the extension cogs.fractal.cog, so
\* cogs is a top-level package): three dots reach beyond the top-level
\* package and the statement raises ImportError before anything is compared.
is_full(g) == [raised |-> TRUE, value |-> FALSE]

\* int(len(self.members) * VOTE_PERCENTAGE_REQUIRED), with 0.51: the product
\* is truncated (for n < 100 it is never within rounding error of an integer)
votes_needed(n) == (n * 51) \div 100

\* position in vote_counts (insertion order) of the first candidate with
\* votes >= votes_needed, 0 if there is none
FirstElected(vote_counts, needed) ==
    LET hits == {i \in 1..Len(vote_counts) : vote_counts[i].count >= needed}
    IN  IF hits = {} THEN 0 ELSE CHOOSE i \in hits : \A j \in hits : i <= j

\* FractalGroup.start_new_round up to its first await: at "final" it is
\* suspended in show_final_results (thread.send of the results), at "round"
\* in thread.send of the new VotingView message.
group_start_new_round(g, winner) ==
    LET won == winner # NoMember
        w1 == IF won THEN Append(g.winners, <<g.current_level, winner>>)
              ELSE g.winners
        m1 == IF won /\ winner \in Range(g.members)
              THEN ListRemove(g.members, winner) ELSE g.members
        l1 == IF won THEN g.current_level - 1 ELSE g.current_level
    IN  IF won /\ Len(m1) = 1
        THEN [group |-> [g EXCEPT !.winners = Append(w1, <<l1, m1[1]>>),
                                  !.members = m1,
                                  !.current_level = l1],
              at |-> "final"]
        ELSE [group |-> [g EXCEPT !.winners = w1,
                                  !.members = m1,
                                  !.current_level = l1,
                                  !.votes = <<>>,
                                  !.vote_counts = <<>>,
                                  !.buttons = @ \cup Range(m1)],
              at |-> "round"]

\* FractalGroup.update_status_message up to its first await: "status" when no
\* winner is found (the status message is sent or edited).  winner, count and
\* size tell which candidate was declared the winner, with how many votes,
\* among how many members.
update_status_message(g) ==
    LET i == FirstElected(g.vote_counts, votes_needed(Len(g.members)))
    IN  IF i = 0
        THEN [group |-> g, at |-> "status", winner |-> NoMember, count |-> 0,
              size |-> Len(g.members)]
        ELSE LET r == group_start_new_round(g, g.vote_counts[i].member)
             IN  [group |-> r.group, at |-> r.at,
                  winner |-> g.vote_counts[i].member,
                  count |-> g.vote_counts[i].count,
                  size |-> Len(g.members)]

\* FractalGroup.record_vote up to its first await (external_voters is always
\* empty: nothing calls add_external_voter).
group_record_vote(g, voter, candidate) ==
    IF voter \notin Range(g.members)
    THEN [ok |-> FALSE, group |-> g, at |-> "none", winner |-> NoMember,
          count |-> 0, size |-> Len(g.members)]
    ELSE LET prev == IF voter \in DOMAIN g.votes THEN g.votes[voter]
                     ELSE NoMember
             vc1 == IF prev \in DictKeys(g.vote_counts)
                    THEN DictAdd(g.vote_counts, prev, -1) ELSE g.vote_counts
             vc2 == IF candidate \in DictKeys(vc1)
                    THEN DictAdd(vc1, candidate, 1)
                    ELSE Append(vc1, [member |-> candidate, count |-> 1])
             g1 == [g EXCEPT !.votes = [v \in DOMAIN g.votes \cup {voter} |->
                                         IF v = voter THEN candidate
                                         ELSE g.votes[v]],
                             !.vote_counts = vc2]
             u == update_status_message(g1)
         IN  [ok |-> TRUE, group |-> u.group, at |-> u.at,
              winner |-> u.winner, count |-> u.count, size |-> u.size]

\* ------------------------------------------------------------ bookkeeping
\* what the last step of the cog did
FCall(op, g, u, c, reply) ==
    [op |-> op, group |-> g, voter |-> u, candidate |-> c, ok |-> FALSE,
     reply |-> reply, winner |-> NoMember, count |-> 0, size |-> 0]

\* a coroutine of the cog suspended at an await: the modal of a /fractalgroup
\* command and its on_submit (kind "submit"), or a VoteButton callback
\* (kind "vote")
FTask(kind, pc, u, g, voice) ==
    [kind |-> kind, pc |-> pc, user |-> u, group |-> g, voice |-> voice]

\* Variant: on_submit finds nobody busy.
BusyMembersNone(voice) == {}

\* the members of voice_members that on_submit reports as already in a group

BusyMembers(voice) ==
    {m \in Range(voice) :
        /\ m \in DOMAIN member_groups
        /\ member_groups[m] \in active_fractal_groups}

\* on_submit once it holds the lock: the busy check, then either the reply
\* to it or interaction.channel.create_thread, both awaited under the lock
AfterLock(t, voice) ==
    [t EXCEPT !.voice = voice,
              !.pc = IF BusyMembers(voice) # {} THEN "busy"
                     ELSE "create_thread"]

\* ------------------------------------------------------ /fractalgroup
\* FractalCog.fractal: the duplicate-command guard, then send_modal; shown
\* is FALSE when send_modal raises (the user is then removed again).
FractalCommand(u, shown) ==
    /\ BagCardinality(tasks) < MaxTasks
    /\ IF u \in active_commands
       THEN UNCHANGED <<tasks, active_commands, last_call>>
       ELSE IF shown
       THEN /\ active_commands' = active_commands \cup {u}
            /\ tasks' = Spawn(FTask("submit", "modal", u, 0, <<>>))
            /\ last_call' = FCall("fractalgroup", 0, u, NoMember, "modal")
       ELSE UNCHANGED <<tasks, active_commands, last_call>>
    /\ UNCHANGED <<respect, timer, clicks, groups, active_fractal_groups,
                   member_groups, lock>>

\* FractalGroupModal.on_submit (the second definition of the class, which
\* replaces the first) from the submission to the lock: defer, the two
\* validations with their early returns, then "async with self.cog._lock",
\* which is entered at once when the lock is free.
OnSubmit(t, voice) ==
    /\ t.kind = "submit" /\ t.pc = "modal"
    /\ IF voice = <<>>
       THEN /\ tasks' = Finish(t)
            /\ last_call' = FCall("on_submit", 0, NoMember, NoMember,
                                  "not_in_voice")
            /\ UNCHANGED lock
       ELSE IF Len(voice) < MIN_GROUP_SIZE
       THEN /\ tasks' = Finish(t)
            /\ last_call' = FCall("on_submit", 0, NoMember, NoMember,
                                  "too_few_members")
            /\ UNCHANGED lock
       ELSE IF lock
       THEN /\ tasks' = Move(t, [t EXCEPT !.pc = "lock", !.voice = voice])
            /\ last_call' = FCall("on_submit", 0, NoMember, NoMember, "none")
            /\ UNCHANGED lock
       ELSE /\ tasks' = Move(t, AfterLock(t, voice))
            /\ last_call' = FCall("on_submit", 0, NoMember, NoMember, "none")
            /\ lock' = TRUE
    /\ UNCHANGED <<respect, timer, clicks, groups, active_fractal_groups,
                   member_groups, active_commands>>

\* on_submit waiting for the lock gets it.
SubmitAcquire(t) ==
    /\ t.kind = "submit" /\ t.pc = "lock"
    /\ ~lock
    /\ lock' = TRUE
    /\ tasks' = Move(t, AfterLock(t, t.voice))
    /\ last_call' = FCall("on_submit", 0, NoMember, NoMember, "none")
    /\ UNCHANGED <<respect, timer, clicks, groups, active_fractal_groups,
                   member_groups, active_commands>>

\* "The following members are already in a fractal group" has been sent:
\* return from inside "async with", before the inner try.
SubmitBusyReply(t) ==
    /\ t.kind = "submit" /\ t.pc = "busy"
    /\ lock' = FALSE
    /\ tasks' = Finish(t)
    /\ last_call' = FCall("on_submit", 0, NoMember, NoMember, "busy_members")
    /\ UNCHANGED <<respect, timer, clicks, groups, active_fractal_groups,
                   member_groups, active_commands>>

\* create_thread returns (ok) or raises HTTPException.  With the thread the
\* FractalGroup is built and every member of the voice channel except the
\* facilitator is added; each add is followed by an awaited thread.add_user,
\* during which the group is known to this coroutine only.
SubmitThreadCreated(t, ok) ==
    /\ t.kind = "submit" /\ t.pc = "create_thread"
    /\ IF ok
       THEN /\ Len(groups) < MaxGroups
            /\ LET others == SelectSeq(t.voice, LAMBDA m : m # t.user)
                   AddAll[i \in 0..Len(others)] ==
                       IF i = 0 THEN NewGroup(t.user)
                       ELSE add_member(AddAll[i - 1], others[i])
               IN  groups' = Append(groups, AddAll[Len(others)])
            /\ tasks' = Move(t, [t EXCEPT !.pc = "add_users",
                                          !.group = Len(groups) + 1])
       ELSE /\ tasks' = Move(t, [t EXCEPT !.pc = "failed"])
            /\ UNCHANGED groups
    /\ last_call' = FCall("on_submit", 0, NoMember, NoMember, "none")
    /\ UNCHANGED <<respect, timer, clicks, active_fractal_groups, member_groups,
                   active_commands, lock>>

\* The last thread.add_user has returned: the group is stored and every
\* voice member is mapped to it; then the welcome message is sent.
SubmitRegister(t) ==
    /\ t.kind = "submit" /\ t.pc = "add_users"
    /\ active_fractal_groups' = active_fractal_groups \cup {t.group}
    /\ member_groups' =
          [m \in DOMAIN member_groups \cup Range(t.voice) |->
              IF m \in Range(t.voice) THEN t.group ELSE member_groups[m]]
    /\ tasks' = Move(t, [t EXCEPT !.pc = "welcome"])
    /\ last_call' = FCall("on_submit", t.group, NoMember, NoMember,
                          "registered")
    /\ UNCHANGED <<respect, timer, clicks, groups, active_commands, lock>>

\* group.start_new_round() of the new group, up to the send of its first
\* VotingView message.
SubmitStartRound(t) ==
    /\ t.kind = "submit" /\ t.pc = "welcome"
    /\ groups' = [groups EXCEPT
                    ![t.group] = group_start_new_round(@, NoMember).group]
    /\ tasks' = Move(t, [t EXCEPT !.pc = "round"])
    /\ last_call' = FCall("on_submit", t.group, NoMember, NoMember, "none")
    /\ UNCHANGED <<respect, timer, clicks, active_fractal_groups, member_groups,
                   active_commands, lock>>

\* The inner try of on_submit is over (after the last followup.send, or after
\* the error reply of an except clause): "finally" removes the user from
\* _active_commands and the lock is released.
SubmitFinish(t) ==
    /\ t.kind = "submit" /\ t.pc \in {"reply", "failed"}
    /\ active_commands' = active_commands \ {t.user}
    /\ lock' = FALSE
    /\ tasks' = Finish(t)
    /\ last_call' = FCall("on_submit", t.group, NoMember, NoMember,
                          IF t.pc = "reply" THEN "created" ELSE "error")
    /\ UNCHANGED <<respect, timer, clicks, groups, active_fractal_groups,
                   member_groups>>

\* ------------------------------------------------ FractalGroup coroutines
\* start_new_round resumes after the send of the VotingView message and
\* calls update_status_message, which may declare a winner and start the
\* next round in turn.
RoundResume(t) ==
    /\ t.pc = "round"
    /\ LET r == update_status_message(groups[t.group])
       IN  /\ groups' = [groups EXCEPT ![t.group] = r.group]
           /\ last_call' = [FCall("update_status_message", t.group, NoMember,
                                  NoMember, "none")
                              EXCEPT !.winner = r.winner, !.count = r.count,
                                     !.size = r.size]
           /\ tasks' = IF r.at = "round" THEN tasks
                       ELSE IF r.at = "final"
                       THEN Move(t, [t EXCEPT !.pc = "final"])
                       ELSE IF t.kind = "submit"
                       THEN Move(t, [t EXCEPT !.pc = "reply"])
                       ELSE Finish(t)
    /\ UNCHANGED <<respect, timer, clicks, active_fractal_groups, member_groups,
                   active_commands, lock>>

\* show_final_results resumes after the send of the results and archives and
\* locks the thread; nothing else is done for the group.
FinalResume(t) ==
    /\ t.pc = "final"
    /\ groups' = [groups EXCEPT ![t.group].archived = TRUE]
    /\ tasks' = IF t.kind = "submit" THEN Move(t, [t EXCEPT !.pc = "reply"])
                ELSE Finish(t)
    /\ last_call' = FCall("show_final_results", t.group, NoMember, NoMember,
                          "none")
    /\ UNCHANGED <<respect, timer, clicks, active_fractal_groups, member_groups,
                   active_commands, lock>>

\* ---------------------------------------------------- VoteButton.callback
\* A click on the button of candidate c on any VotingView message of thread
\* g (the messages of earlier levels keep their buttons).
FractalVoteClick(g, u, c) ==
    /\ clicks < MaxVotes
    /\ g \in 1..Len(groups)
    /\ c \in groups[g].buttons
    /\ ~groups[g].archived
    /\ IF u \notin Range(groups[g].members)
       THEN UNCHANGED <<groups, tasks, clicks, last_call>>
       ELSE LET r == group_record_vote(groups[g], u, c)
            IN  /\ r.at # "status" => BagCardinality(tasks) < MaxTasks
                /\ clicks' = clicks + 1
                /\ groups' = [groups EXCEPT ![g] = r.group]
                /\ last_call' = [FCall("vote", g, NoMember, c,
                                       IF r.ok THEN "voted" ELSE "failed")
                                   EXCEPT !.ok = r.ok, !.winner = r.winner,
                                          !.count = r.count, !.size = r.size]
                /\ tasks' = IF r.at \in {"round", "final"}
                            THEN Spawn(FTask("vote", r.at, NoMember, g, <<>>))
                            ELSE tasks
    /\ UNCHANGED <<respect, timer, active_fractal_groups, member_groups,
                   active_commands, lock>>

\* ---------------------------------------------------- JoinButton.callback
\* The callback takes no lock.  added tells whether thread.add_user, awaited
\* after the member has been added, succeeds.
JoinReply(g, u, added) ==
    LET full == is_full(groups[g])
    IN  IF full.raised THEN "ImportError"
        ELSE IF full.value THEN "group_full"
        ELSE IF u \in DOMAIN member_groups /\ member_groups[u] # g
        THEN "already_in_another_group"
        ELSE IF added THEN "joined" ELSE "failed_to_add"

JoinClick(g, u, added) ==
    /\ g \in 1..Len(groups)
    /\ LET reply == JoinReply(g, u, added)
       IN  /\ last_call' = FCall("join", g, u, NoMember, reply)
           /\ IF reply \in {"joined", "failed_to_add"}
              THEN /\ groups' = [groups EXCEPT ![g] = add_member(@, u)]
                   /\ member_groups' =
                         [m \in DOMAIN member_groups \cup {u} |->
                             IF m = u THEN g ELSE member_groups[m]]
              ELSE UNCHANGED <<groups, member_groups>>
    /\ UNCHANGED <<respect, timer, tasks, clicks, active_fractal_groups,
                   active_commands, lock>>

\* ------------------------------------------------------- periodic_cleanup
\* removed is the set of registered groups whose thread the pass finds gone
\* (fetch_channel raises NotFound) or older than THREAD_INACTIVE_THRESHOLD,
\* which it archives and locks; they are popped and the entries of their
\* current members are deleted.
PeriodicCleanup(removed) ==
    /\ removed # {}
    /\ removed \subseteq active_fractal_groups
    /\ active_fractal_groups' = active_fractal_groups \ removed
    /\ groups' = [g \in 1..Len(groups) |->
                    IF g \in removed THEN [groups[g] EXCEPT !.archived = TRUE]
                    ELSE groups[g]]
    /\ member_groups' =
          [m \in {x \in DOMAIN member_groups :
                     ~(/\ member_groups[x] \in removed
                       /\ x \in Range(groups[member_groups[x]].members))} |->
              member_groups[m]]
    /\ last_call' = FCall("periodic_cleanup", 0, NoMember, NoMember, "none")
    /\ UNCHANGED <<respect, timer, tasks, clicks, active_commands, lock>>

InitFractal == NoSession

NextFractal ==
    \/ \E u \in Facilitators, shown \in BOOLEAN : FractalCommand(u, shown)
    \/ \E t \in BagToSet(tasks) :
          \E voice \in VoiceOf(t.user, VoiceChannels) : OnSubmit(t, voice)
    \/ \E t \in BagToSet(tasks) : SubmitAcquire(t)
    \/ \E t \in BagToSet(tasks) : SubmitBusyReply(t)
    \/ \E t \in BagToSet(tasks), ok \in BOOLEAN : SubmitThreadCreated(t, ok)
    \/ \E t \in BagToSet(tasks) : SubmitRegister(t)
    \/ \E t \in BagToSet(tasks) : SubmitStartRound(t)
    \/ \E t \in BagToSet(tasks) : SubmitFinish(t)
    \/ \E t \in BagToSet(tasks) : RoundResume(t)
    \/ \E t \in BagToSet(tasks) : FinalResume(t)
    \/ \E g \in 1..MaxGroups, u \in FUsers, c \in FUsers :
          clicks < MaxRegistryVotes /\ FractalVoteClick(g, u, c)
    \/ \E g \in 1..MaxGroups, u \in Joiners, added \in BOOLEAN :
          JoinClick(g, u, added)
    \/ \E removed \in SUBSET active_fractal_groups : PeriodicCleanup(removed)

SpecFractal == InitFractal /\ [][NextFractal]_vars

\* One group of n members as on_submit leaves it: registered, its members
\* tracked, the VotingView of level 6 posted, no vote yet.
GroupCreated(n) ==
    /\ NoRespectVote
    /\ NoTimers
    /\ active_commands = {}
    /\ lock = FALSE
    /\ groups = <<[NewGroup(1) EXCEPT !.members = [i \in 1..n |-> i],
                                        !.buttons = 1..n]>>
    /\ active_fractal_groups = {1}
    /\ member_groups = [m \in 1..n |-> 1]

InitLevels == \E n \in MIN_GROUP_SIZE..MaxLevelMembers : GroupCreated(n)

NextLevels ==
    \/ \E u \in 1..MaxLevelMembers, c \in 1..MaxLevelMembers :
          FractalVoteClick(1, u, c)
    \/ \E t \in BagToSet(tasks) : RoundResume(t)
    \/ \E t \in BagToSet(tasks) : FinalResume(t)

SpecLevels == InitLevels /\ [][NextLevels]_vars

\* ================================================== timer_commands.py
\* TimerView.__init__; duration (180 seconds in the code) is cut to
\* MaxSeconds.  at is the await at which the coroutine that currently
\* drives the view is suspended:
\*   "modal"        /timer in interaction.response.send_modal
\*   "shown"        the modal is open at the user, /timer has returned
\*   "sending"      start_timer in send_message / original_response
\*   "created"      update_task was created and has not run yet
\*   "sleep_run"    update_timer in asyncio.sleep, about to count down
\*   "sleep_paused" update_timer in asyncio.sleep of the paused branch
\*   "edit"         update_timer in message.edit of the loop
\*   "final"        update_timer in message.edit of the completed timer
\*   "error"        update_timer in message.edit of its except branch
\*   "done"         no coroutine drives the view any more
\* shown tells that the message with the buttons of the view is displayed.
NewTimerView(channel_id) ==
    [channel_id |-> channel_id, remaining |-> MaxSeconds, paused |-> FALSE,
     at |-> "modal", shown |-> FALSE]

Channels == 1..MaxChannels

TimerCall(channel, reply) ==
    [op |-> "timer", channel |-> channel, reply |-> reply]

\* active_timers[channel_id] = timer_view
Register(d, channel, v) ==
    [c \in DOMAIN d \cup {channel} |-> IF c = channel THEN v ELSE d[c]]

\* if self.channel_id in active_timers: del active_timers[self.channel_id]
Cleanup(d, channel) ==
    IF channel \in DOMAIN d
    THEN [c \in DOMAIN d \ {channel} |-> d[c]] ELSE d

\* The head of the loop of update_timer: where the task suspends next.
LoopHead(view) ==
    IF view.remaining > 0
    THEN IF ~view.paused THEN "sleep_run" ELSE "sleep_paused"
    ELSE "final"

\* update_task exists and has not finished
Running(v) ==
    timer_views[v].at \in {"created", "sleep_run", "sleep_paused", "edit",
                           "final", "error"}

\* --------------------------------------------------------- TimerCog.timer
\* The /timer command in a channel, up to its first await.
TimerCommand(channel) ==
    /\ IF channel \in DOMAIN active_timers
       THEN /\ last_call' = TimerCall(channel, "already_active")
            /\ UNCHANGED timer_views
       ELSE /\ Len(timer_views) < MaxTimers
            /\ timer_views' = Append(timer_views, NewTimerView(channel))
            /\ last_call' = TimerCall(channel, "modal")
    /\ UNCHANGED <<respect, fractal, tasks, clicks, active_timers>>

\* send_modal returns and the view is stored, or it raises and
\* handle_command_error reports the error.
TimerModalShown(v, ok) ==
    /\ timer_views[v].at = "modal"
    /\ IF ok
       THEN /\ active_timers' = Register(active_timers,
                                          timer_views[v].channel_id, v)
            /\ timer_views' = [timer_views EXCEPT ![v].at = "shown"]
       ELSE /\ timer_views' = [timer_views EXCEPT ![v].at = "done"]
            /\ UNCHANGED active_timers
    /\ last_call' = NoCall
    /\ UNCHANGED <<respect, fractal, tasks, clicks>>

\* ------------------------- MemberNameModal.on_submit, TimerView.start_timer
TimerSubmit(v) ==
    /\ timer_views[v].at = "shown"
    /\ timer_views' = [timer_views EXCEPT ![v].at = "sending"]
    /\ last_call' = NoCall
    /\ UNCHANGED <<respect, fractal, tasks, clicks, active_timers>>

\* send_message and original_response return and the update task is
\* created, or one of them raises and start_timer ends.
TimerSent(v, ok) ==
    /\ timer_views[v].at = "sending"
    /\ timer_views' = [timer_views EXCEPT
                          ![v].at = IF ok THEN "created" ELSE "done",
                          ![v].shown = ok]
    /\ last_call' = NoCall
    /\ UNCHANGED <<respect, fractal, tasks, clicks, active_timers>>

\* ------------------------------------------------- TimerView.update_timer
\* The task starts: the loop condition is evaluated for the first time.
TimerTaskStart(v) ==
    /\ timer_views[v].at = "created"
    /\ timer_views' = [timer_views EXCEPT ![v].at = LoopHead(timer_views[v])]
    /\ last_call' = NoCall
    /\ UNCHANGED <<respect, fractal, tasks, clicks, active_timers>>

\* asyncio.sleep returns: the timer is decremented and the edit of the
\* message begins, or (paused branch) the loop condition is evaluated again.
TimerWake(v) ==
    /\ timer_views[v].at \in {"sleep_run", "sleep_paused"}
    /\ timer_views' =
         IF timer_views[v].at = "sleep_run"
         THEN [timer_views EXCEPT
                  ![v].remaining = IF @ - 1 < 0 THEN 0 ELSE @ - 1,
                  ![v].at = "edit"]
         ELSE [timer_views EXCEPT ![v].at = LoopHead(timer_views[v])]
    /\ last_call' = NoCall
    /\ UNCHANGED <<respect, fractal, tasks, clicks, active_timers>>

\* message.edit of the loop returns, or raises into the except branch.
TimerEdited(v, ok) ==
    /\ timer_views[v].at = "edit"
    /\ timer_views' = [timer_views EXCEPT
                          ![v].at = IF ok THEN LoopHead(timer_views[v])
                                    ELSE "error"]
    /\ last_call' = NoCall
    /\ UNCHANGED <<respect, fractal, tasks, clicks, active_timers>>

\* The edit that shows "Time's up" and removes the buttons returns and the
\* entry of the channel is deleted, or it raises into the except branch.
TimerCompleted(v, ok) ==
    /\ timer_views[v].at = "final"
    /\ IF ok
       THEN /\ timer_views' = [timer_views EXCEPT ![v].at = "done",
                                                  ![v].shown = FALSE]
            /\ active_timers' = Cleanup(active_timers,
                                        timer_views[v].channel_id)
       ELSE /\ timer_views' = [timer_views EXCEPT ![v].at = "error"]
            /\ UNCHANGED active_timers
    /\ last_call' = NoCall
    /\ UNCHANGED <<respect, fractal, tasks, clicks>>

\* The edit of the except branch returns and the entry of the channel is
\* deleted, or it raises and the task ends with that exception.
TimerFailed(v, ok) ==
    /\ timer_views[v].at = "error"
    /\ IF ok
       THEN /\ timer_views' = [timer_views EXCEPT ![v].at = "done",
                                                  ![v].shown = FALSE]
            /\ active_timers' = Cleanup(active_timers,
                                        timer_views[v].channel_id)
       ELSE /\ timer_views' = [timer_views EXCEPT ![v].at = "done"]
            /\ UNCHANGED active_timers
    /\ last_call' = NoCall
    /\ UNCHANGED <<respect, fractal, tasks, clicks>>

\* ------------------------------- TimerView.pause_resume, TimerView.reset
PauseResume(v) ==
    /\ clicks < MaxTimerClicks
    /\ timer_views[v].shown
    /\ clicks' = clicks + 1
    /\ timer_views' = [timer_views EXCEPT ![v].paused = ~@]
    /\ last_call' = NoCall
    /\ UNCHANGED <<respect, fractal, tasks, active_timers>>

Reset(v) ==
    /\ clicks < MaxTimerClicks
    /\ timer_views[v].shown
    /\ clicks' = clicks + 1
    /\ timer_views' = [timer_views EXCEPT ![v].remaining = MaxSeconds,
                                          ![v].paused = FALSE]
    /\ last_call' = NoCall
    /\ UNCHANGED <<respect, fractal, tasks, active_timers>>

InitTimer == NoSession

NextTimer ==
    \/ \E channel \in Channels : TimerCommand(channel)
    \/ \E v \in 1..Len(timer_views), ok \in BOOLEAN : TimerModalShown(v, ok)
    \/ \E v \in 1..Len(timer_views) : TimerSubmit(v)
    \/ \E v \in 1..Len(timer_views), ok \in BOOLEAN : TimerSent(v, ok)
    \/ \E v \in 1..Len(timer_views) : TimerTaskStart(v)
    \/ \E v \in 1..Len(timer_views) : TimerWake(v)
    \/ \E v \in 1..Len(timer_views), ok \in BOOLEAN : TimerEdited(v, ok)
    \/ \E v \in 1..Len(timer_views), ok \in BOOLEAN : TimerCompleted(v, ok)
    \/ \E v \in 1..Len(timer_views), ok \in BOOLEAN : TimerFailed(v, ok)
    \/ \E v \in 1..Len(timer_views) : PauseResume(v)
    \/ \E v \in 1..Len(timer_views) : Reset(v)

SpecTimer == InitTimer /\ [][NextTimer]_vars

\* ------------------------------------------------------ structural checks
TypeOK ==
    /\ Range(members) \subseteq Range(original_members)
    /\ Range(members) \subseteq DictKeys(votes)
    /\ DOMAIN voter_choices \subseteq Range(original_members)
    /\ \A v \in DOMAIN voter_choices : voter_choices[v] \in DictKeys(votes)
    /\ BagCardinality(tasks) <= MaxTasks
    /\ clicks <= MaxClicks \/ clicks <= MaxCalls

\* ================================================================ claims
RECURSIVE SumCounts(_)
SumCounts(vs) == IF vs = <<>> THEN 0 ELSE Head(vs).count + SumCounts(Tail(vs))

CeilHalf(n) == (n + 1) \div 2

MaxCount(vs) ==
    CHOOSE c \in {vs[i].count : i \in 1..Len(vs)} :
        \A i \in 1..Len(vs) : vs[i].count <= c

VotersFor(c) == {v \in DOMAIN voter_choices : voter_choices[v] = c}

VoteJustRecorded == last_call.op = "record_vote" /\ last_call.ok

VoteJustRejected == last_call.op = "record_vote" /\ ~last_call.ok

\* C1: after every record_vote and every start_new_round the counts in votes
\* add up to the number of entries of voter_choices, and no count is negative.
TallyMatchesChoices ==
    /\ SumCounts(votes) = Cardinality(DOMAIN voter_choices)
    /\ \A i \in 1..Len(votes) : votes[i].count >= 0

\* C1 witness: a voter has just changed their vote in a round after the first.
VoteChangedInLaterRound ==
    /\ VoteJustRecorded
    /\ last_call.previous \notin {NoMember, last_call.candidate}
    /\ current_round >= 2

\* An accepted vote sets the voter's choice and touches nobody else's.
AcceptedVoteReplaces ==
    (last_call'.op = "record_vote" /\ last_call'.ok) =>
        voter_choices' =
            [v \in (DOMAIN voter_choices) \cup {last_call'.voter} |->
                IF v = last_call'.voter THEN last_call'.candidate
                ELSE voter_choices[v]]

CountsMatchChoices ==
    \A i \in 1..Len(votes) :
        votes[i].count = Cardinality(VotersFor(votes[i].member))

\* C2: the last accepted vote of a voter replaces the earlier one: the choice
\* recorded for a voter is the candidate of the latest accepted vote, and
\* every count equals the number of voters whose recorded choice it is.
LastVoteWins == []CountsMatchChoices /\ [][AcceptedVoteReplaces]_vars

\* C2 witness: a changed vote moved a voter away from a candidate who is
\* still credited with another voter.
ChangedVoteLeavesOthers ==
    /\ VoteJustRecorded
    /\ last_call.previous \notin {NoMember, last_call.candidate}
    /\ VotersFor(last_call.previous) # {}
    /\ Cardinality(VotersFor(last_call.candidate)) >= 2

RejectedVoteChangesNothing ==
    (last_call'.op = "record_vote" /\ ~last_call'.ok) =>
        (votes' = votes /\ voter_choices' = voter_choices)

AcceptedIffEligible ==
    last_call.op = "record_vote" =>
        (last_call.ok <=> (/\ last_call.voter \in Range(original_members)
                           /\ last_call.candidate \in Range(members)))

\* C3: record_vote accepts a vote exactly when the voter is an original
\* member and the candidate is in the current pool; a rejected vote leaves
\* votes and voter_choices as they were.
VoteAcceptedIffEligible ==
    []AcceptedIffEligible /\ [][RejectedVoteChangesNothing]_vars

\* C3 witness: a member's vote for an already eliminated candidate was rejected.
EliminatedCandidateRejected ==
    /\ VoteJustRejected
    /\ last_call.voter \in Range(original_members)
    /\ last_call.candidate \in Range(original_members) \ Range(members)

\* C4: is_round_complete() holds exactly when every original member has a
\* recorded vote or the largest count is at least ceil(n/2).
RoundCompleteIff ==
    is_round_complete(voter_choices, original_members, votes, threshold)
        <=> \/ Cardinality(DOMAIN voter_choices) = Len(original_members)
            \/ MaxCount(votes) >= CeilHalf(Len(original_members))

\* C4 witness: three original members, two votes, the round is complete.
CompleteBeforeFullTurnout ==
    /\ Len(original_members) = 3
    /\ Cardinality(DOMAIN voter_choices) = 2
    /\ VoteJustRecorded
    /\ is_round_complete(voter_choices, original_members, votes, threshold)

\* C5 as claimed: the stored threshold equals ceil(n/2).
ThresholdIsCeilHalf ==
    threshold.num = threshold.den * CeilHalf(Len(original_members))

\* C5 as amended: the stored threshold is n/2 for the n original members in
\* every state, however far the pool has shrunk, so a count meets it exactly
\* when it is at least ceil(n/2).
ThresholdIsHalfOfOriginal ==
    /\ threshold.den > 0
    /\ threshold.num * 2 = threshold.den * Len(original_members)
    /\ \A c \in 0..Len(original_members) :
          MeetsThreshold(c, threshold) <=> c >= CeilHalf(Len(original_members))

\* C5 witness: a later round of a session of three, the pool has shrunk.
PoolShrunkInLaterRound ==
    /\ Len(original_members) = 3
    /\ current_round >= 2
    /\ Len(members) < Len(original_members)
    /\ last_call.op = "start_new_round"

\* C6: under any interleaving of the callbacks every round is completed
\* once: no round is announced as complete twice.
EachRoundCompletedOnce ==
    \A i, j \in 1..Len(round_results) :
        i # j => round_results[i].round # round_results[j].round

\* The winner the pool order prescribes: the first pool member whose count
\* meets the threshold, else the first pool member with the largest count.
PoolCount(i) == DictGet(votes, members[i])

PoolWinner ==
    IF members = <<>> THEN NoMember
    ELSE IF \E i \in 1..Len(members) : MeetsThreshold(PoolCount(i), threshold)
    THEN members[CHOOSE i \in 1..Len(members) :
            /\ MeetsThreshold(PoolCount(i), threshold)
            /\ \A j \in 1..(i - 1) : ~MeetsThreshold(PoolCount(j), threshold)]
    ELSE members[CHOOSE i \in 1..Len(members) :
            /\ \A j \in 1..Len(members) : PoolCount(j) <= PoolCount(i)
            /\ \A j \in 1..(i - 1) : PoolCount(j) < PoolCount(i)]

\* C7: get_round_winner returns the first candidate in pool order that meets
\* the threshold, otherwise the candidate of the pool with the largest count,
\* ties going to the lowest pool index.
WinnerIsFirstBestInPool == get_round_winner(votes, threshold) = PoolWinner

FinalRankingProduced == Len(final_results') = Len(final_results) + 1

\* C8: in a final ranking, position k holds the member announced as the
\* winner of round k, for every round completed before it was produced.
FinalRankingFollowsRounds ==
    [][FinalRankingProduced =>
          \A i \in 1..Len(round_results) :
              LET k == round_results[i].round
                  ranking == final_results'[Len(final_results')]
              IN  /\ k <= Len(ranking)
                  /\ ranking[k] = round_results[i].winner]_vars

\* C9: every final ranking lists every original member exactly once.
FinalRankingIsPermutation ==
    \A f \in 1..Len(final_results) :
        /\ Len(final_results[f]) = Len(original_members)
        /\ Range(final_results[f]) = Range(original_members)

\* C10: once complete_round has found fewer than two candidates left and
\* has returned, final results were produced and the session is no longer
\* in active_votes.
LastRoundFinalizes ==
    final_branch_taken => (final_results # <<>> /\ active_votes = {})

\* The session is finalized: final results were shown and the thread was
\* removed from active_votes.
Finalized == final_results # <<>> /\ ThreadId \notin active_votes

\* C11: once the session is finalized, no later vote click, leader
\* completion or Continue click changes votes, voter_choices, members,
\* current_round or round_winners.
FinalizedSessionFrozen ==
    [][(Finalized /\ ~FinalRankingProduced) =>
          UNCHANGED <<votes, voter_choices, members, current_round,
                      round_winners>>]_vars

Position(s, x) == CHOOSE i \in 1..Len(s) : s[i] = x

\* a is a duplicate-free sub-sequence of the duplicate-free sequence b
IsSubSeq(a, b) ==
    /\ Range(a) \subseteq Range(b)
    /\ \A i, j \in 1..Len(a) : i < j => Position(b, a[i]) < Position(b, a[j])

PoolIsUnrankedSubSeq ==
    /\ IsSubSeq(members, original_members)
    /\ Range(round_winners) \cap Range(members) = {}

\* A round handed over to the next one takes its winner, and nobody else,
\* out of the pool; nothing else changes the pool.
RoundRemovesWinner ==
    /\ last_call'.op = "start_new_round" =>
          /\ last_call'.winner \in Range(members)
          /\ members' = ListRemove(members, last_call'.winner)
    /\ members' # members => last_call'.op = "start_new_round"

\* C12: members is a duplicate-free sub-sequence of original_members, each
\* completed round removes exactly its winner from it, and round_winners and
\* members never share a member.
MembersArePoolOfUnranked ==
    []PoolIsUnrankedSubSeq /\ [][RoundRemovesWinner]_vars

LeaderJustAsked == last_call.op = "leader_complete"

\* The request is accepted exactly for the leader with a vote recorded; a
\* rejected request changes nothing and starts nothing.
LeaderRequestGuarded ==
    last_call'.op = "leader_complete" =>
        /\ (last_call'.reply = "completing") <=>
               (last_call'.voter = leader /\ DOMAIN voter_choices # {})
        /\ UNCHANGED <<votes, voter_choices, members, round_winners,
                       current_round>>
        /\ last_call'.reply # "completing" =>
               UNCHANGED <<tasks, round_results, views>>

\* complete_round is entered from the leader's callback only with a vote
\* recorded in the round it completes.
LeaderCompletesWithVotes ==
    (\E t \in BagToSet(tasks) : t.pc = "l_ack" /\ LeaderResume(t)) =>
        DOMAIN voter_choices # {}

\* C13: the leader override completes the round only when the requester is
\* the designated leader and at least one vote is recorded in the current
\* round; any other request is rejected and changes nothing.
LeaderOverrideGuarded ==
    [][LeaderRequestGuarded /\ LeaderCompletesWithVotes]_vars

LeaderOverrideRequestGuarded == [][LeaderRequestGuarded]_vars

\* c is the one candidate whose count meets the threshold
ReachedAlone(c) ==
    /\ c \in DictKeys(votes)
    /\ \A i \in 1..Len(votes) :
          MeetsThreshold(votes[i].count, threshold) <=> votes[i].member = c

\* The accepted vote that brought its candidate to the threshold leaves the
\* round complete with that candidate as the winner, whoever has not voted.
ThresholdVoteCompletes ==
    (VoteJustRecorded /\ ReachedAlone(last_call.candidate)) =>
        /\ is_round_complete(voter_choices, original_members, votes, threshold)
        /\ get_round_winner(votes, threshold) = last_call.candidate

\* The round started next ranks that candidate (first, if nobody is ranked
\* yet), leaves
\* the other members of the pool in their original order and keeps the
\* threshold.
ThresholdWinnerRanked ==
    (/\ VoteJustRecorded
     /\ ReachedAlone(last_call.candidate)
     /\ last_call'.op = "start_new_round") =>
        /\ round_winners' = Append(round_winners, last_call.candidate)
        /\ round_winners = <<>> => Head(round_winners') = last_call.candidate
        /\ members' = SelectSeq(original_members,
                         LAMBDA m : m \in Range(members) \ {last_call.candidate})
        /\ threshold' = threshold

RoundOfTwoEntered ==
    /\ current_round >= 2
    /\ Len(members) = 2
    /\ tasks = EmptyBag

\* C15: when exactly two candidates remain entering a round, the session is
\* finalized without a vote and both are ranked, in pool order.
TwoLeftFinalizesBoth ==
    RoundOfTwoEntered =>
        /\ final_results # <<>>
        /\ \E k \in 1..(Len(round_winners) - 1) :
              SubSeq(round_winners, k, k + 1) = members

\* The points of the table, by 1-based rank position.
RankPoints(k) ==
    CASE k = 1 -> 110
      [] k = 2 -> 68
      [] k = 3 -> 42
      [] k = 4 -> 26
      [] k = 5 -> 16
      [] k = 6 -> 10
      [] OTHER -> 0

\* C16: at finalization the member at rank position 1, 2, 3, 4, 5, 6 is
\* awarded 110, 68, 42, 26, 16, 10 points, and every member at a position
\* beyond 6 is awarded 0 points.
PointsFollowTable ==
    \A f \in 1..Len(final_points) :
        /\ Len(final_points[f]) = Len(final_results[f])
        /\ \A k \in 1..Len(final_points[f]) :
              final_points[f][k] = RankPoints(k)

\* C16 witness: a final ranking of at least seven members was awarded.
SeventhRankAwarded ==
    \E f \in 1..Len(final_points) :
        /\ Len(final_results[f]) >= 7
        /\ final_points[f][6] = 10
        /\ final_points[f][7] = 0

\* C17: at finalization every original member absent from the round winners
\* is appended after all round winners, in original_members order, and is
\* awarded 0 points.
AbsentMembersLastWithZero ==
    [][FinalRankingProduced =>
          LET ranking == final_results'[Len(final_results')]
              points == final_points'[Len(final_points')]
              absent == SelectSeq(original_members,
                                  LAMBDA m : m \notin Range(round_winners))
          IN  /\ ranking = round_winners \o absent
              /\ \A k \in (Len(round_winners) + 1)..Len(ranking) :
                    points[k] = 0]_vars

RECURSIVE SumSeq(_)
SumSeq(q) == IF q = <<>> THEN 0 ELSE Head(q) + SumSeq(Tail(q))

RECURSIVE TableTotal(_)
TableTotal(n) == IF n = 0 THEN 0 ELSE RankPoints(n) + TableTotal(n - 1)

\* C18: for a fixed set of original members the sum of the points awarded
\* at a finalization is the same in every run: the total of the table over
\* one rank position per original member.
PointsSumFixedByMembers ==
    \A f \in 1..Len(final_points) :
        SumSeq(final_points[f]) = TableTotal(Len(original_members))

\* C19: no attempted vote is silently dropped: when record_vote rejects a
\* vote, the callback reports a rejection to the voter and never
\* acknowledges the vote as cast.
RejectedVoteIsReported ==
    VoteJustRejected => last_call.reply \notin {"voted", "vote_changed"}

\* While the thread has an entry in active_votes no RespectVote object is
\* created for it, and a /respectvote command is rejected and changes nothing.
ActiveSessionKept ==
    ThreadId \in active_votes =>
        /\ created' = created
        /\ last_call'.op = "respectvote" =>
              /\ last_call'.reply = "already_active"
              /\ UNCHANGED <<session, message, status_message, active_votes,
                             tasks>>

\* C20: at most one session is active per thread: starting a session in a
\* thread that has an entry in active_votes is rejected and leaves the
\* existing session untouched, also when start commands overlap.
OneSessionPerThread == [][ActiveSessionKept]_vars

\* A step that begins a new round (the round counter goes up by one) leaves
\* no recorded choice and a tally of 0 for exactly the members of the new
\* pool, in pool order.
NewRoundHasFreshBallot ==
    current_round' = current_round + 1 =>
        /\ voter_choices' = <<>>
        /\ votes' = ZeroVotes(members')

\* C21: whenever start_new_round begins a new round (current_round is
\* incremented), voter_choices is empty and votes maps exactly the remaining
\* candidates to 0: no vote of an earlier round is carried into the new one.
BallotFreshEachRound == [][NewRoundHasFreshBallot]_vars

\* C21 witness: round 2 of three members has just begun after member 2 won
\* round 1 on votes that were recorded in round 1.
SecondRoundBegunAfterVotes ==
    /\ last_call.op = "start_new_round"
    /\ last_call.winner = 2
    /\ current_round = 2
    /\ round_winners = <<2>>
    /\ members = <<1, 3>>
    /\ voter_choices = <<>>
    /\ votes = ZeroVotes(members)

\* C28: in the poll that FractalNameModal.on_submit starts (a session without
\* a leader, announced with "You cannot vote for yourself"), a vote whose
\* voter equals its candidate is never recorded in voter_choices nor counted.
SelfVoteNeverCounted ==
    leader = NoMember =>
        /\ \A v \in DOMAIN voter_choices : voter_choices[v] # v
        /\ VoteJustRecorded => last_call.voter # last_call.candidate

FailedJoinChangesNothing ==
    (last_call'.op = "join" /\ last_call'.reply # "joined") =>
        UNCHANGED <<groups, member_groups, active_fractal_groups>>

GroupSizeBounded ==
    \A g \in 1..Len(groups) : Len(groups[g].members) <= MAX_GROUP_SIZE

\* A step that removes groups from the registry leaves no member_groups
\* entry that points to one of them.
RemovedGroupLeavesNoEntry ==
    \A g \in active_fractal_groups \ active_fractal_groups' :
        \A m \in DOMAIN member_groups' : member_groups'[m] # g

\* C25: when periodic_cleanup removes a group from the registry, every
\* member_groups entry pointing to it is removed, for every member that was
\* ever placed in the group.
CleanupDropsEveryEntry == [][RemovedGroupLeavesNoEntry]_vars

\* C26: once show_final_results of a group has run, the group is not in
\* active_fractal_groups and no member tracked for it is reported busy by a
\* later creation.
FinalizedGroupDestroyed ==
    last_call.op = "show_final_results" =>
        /\ last_call.group \notin active_fractal_groups
        /\ \A m \in DOMAIN member_groups :
              member_groups[m] = last_call.group => BusyMembers(<<m>>) = {}

\* C27: update_status_message declares a winner only if the candidate's
\* count is at least 51% of the current members:
\* 100 * votes >= 51 * len(members).
WinnerHasFiftyOnePercent ==
    (last_call.op \in {"vote", "update_status_message"}
        /\ last_call.winner # NoMember) =>
        100 * last_call.count >= 51 * last_call.size

\* C29: the duplicate-command guard is released on every path: a user is in
\* _active_commands only while a modal or an on_submit of that user is
\* still in flight.
CommandGuardReleased ==
    \A u \in active_commands :
        \E t \in BagToSet(tasks) : t.kind = "submit" /\ t.user = u

\* A vote for somebody who is not in members when the button is clicked is
\* not counted and leaves the group as it was.
VoteForNonMemberIgnored ==
    (/\ last_call'.op = "vote"
     /\ last_call'.candidate \notin Range(groups[last_call'.group].members)) =>
        /\ ~last_call'.ok
        /\ UNCHANGED groups

\* C30: FractalGroup.record_vote counts a vote only for a candidate that is
\* currently in members; a vote through an old-level button for a member who
\* already won changes neither votes nor vote_counts.
VotesOnlyForCurrentMembers == [][VoteForNonMemberIgnored]_vars


\* The winner appended by a Continue click is the one announced for the
\* round being closed, and holds a vote.
AppendsAnnouncedWinner ==
    (last_call'.op = "start_new_round" /\ round_winners' # round_winners) =>
        /\ \E i \in 1..Len(round_results) :
              /\ round_results[i].round = current_round
              /\ round_results[i].winner = last_call'.winner
        /\ DictGet(votes, last_call'.winner) >= 1

\* C31: for every round, the member start_new_round appends to round_winners
\* is the member complete_round announced as the winner of that round, and
\* that member holds at least one vote, whatever clicks arrive between the
\* announcement and the Continue click.
RankedWinnerIsAnnouncedWinner == [][AppendsAnnouncedWinner]_vars

\* C32: in every reachable state of a FractalGroup, also after the final
\* results were shown, winners holds no member twice and the levels of its
\* entries are DEFAULT_LEVEL, DEFAULT_LEVEL - 1, ... in winning order.
WinnersDistinctLevelsDescend ==
    \A g \in 1..Len(groups) :
        LET w == groups[g].winners IN
        /\ \A i, j \in 1..Len(w) : i # j => w[i][2] # w[j][2]
        /\ \A i \in 1..Len(w) : w[i][1] = DEFAULT_LEVEL - (i - 1)

\* A /timer command in a channel that has an entry in active_timers is
\* rejected and changes nothing.
TimerRejectedWhenActive ==
    (last_call'.op = "timer" /\ last_call'.channel \in DOMAIN active_timers)
        =>  /\ last_call'.reply = "already_active"
            /\ UNCHANGED timer

\* No channel has two TimerView countdowns running.
OneCountdownPerChannel ==
    \A v, w \in 1..Len(timer_views) :
        (/\ v # w
         /\ timer_views[v].channel_id = timer_views[w].channel_id
         /\ Running(v)) => ~Running(w)

\* C33: at most one sharing timer is active per channel: a /timer command in
\* a channel that has an entry in active_timers is rejected, and no
\* interleaving of two /timer commands of the same channel leaves two
\* TimerView countdowns running for that channel.
OneTimerPerChannel ==
    []OneCountdownPerChannel /\ [][TimerRejectedWhenActive]_vars

====
